---- MODULE Spec2Model ----
(***************************************************************************)
(* Model of project.py: the webcam object-measurement demo.                *)
(*                                                                         *)
(*   Spec       the main loop of main(), the mouse callback select_roi     *)
(*              and the keyboard commands                                  *)
(*   SpecSize   get_corrected_size applied to one rotated rectangle        *)
(*   SpecMatch  check_object_match applied to one estimate                 *)
(*                                                                         *)
(* Units.  Centimetre values are integers counting 1/CmUnit cm, so that    *)
(* pixel_size * distance_cm / focal_px is exact for focal_px = 480.        *)
(* Rectangle centres and sizes are integers counting 1/Sub pixel.          *)
(* Python's None is the empty tuple <<>>.                                  *)
(***************************************************************************)
EXTENDS Integers, Sequences, FiniteSets, TLC

VARIABLES roi_selected, roi_box, tracking,   \* module globals, lines 68-70
          distance_cm,                       \* local of main, line 106
          catalogue,                         \* rows of the objects table
          cast_mode,                         \* what an out-of-range float -> int8 cast does
          pc,                                \* position of the program
          est, match_result,                 \* (width_cm, height_cm) and match of this iteration
          last_op, raised, pre,              \* last operation, whether it raised, state before it
          args, ret                          \* argument and result of the function under test

vars == <<roi_selected, roi_box, tracking, distance_cm, catalogue, cast_mode,
          pc, est, match_result, last_op, raised, pre, args, ret>>

None == <<>>

----------------------------------------------------------------------------
(* Program constants *)

FrameWidth == 640
FrameHeight == 480
FocalPx == 480
InitDistance == 50
DistanceStep == 5
MinDistance == 5
MinRoi == 10
MinContourArea == 100
\* One centimetre in the integers of the model: 1/focal_px cm each.
CmUnit == FocalPx
DefaultTolerance == 1 * CmUnit

(* Bounds of the model *)

MaxDistance == 60
MaxCatalog == 2
Sub == 4

----------------------------------------------------------------------------
(* Arithmetic helpers *)

Abs(n) == IF n < 0 THEN -n ELSE n

Max(a, b) == IF a >= b THEN a ELSE b

Min(a, b) == IF a <= b THEN a ELSE b

\* C conversion of a real to an integer: truncation toward zero.
TruncDiv(n, d) == IF n >= 0 THEN n \div d ELSE -((-n) \div d)

\* Two's-complement reduction of an integer to 8 bits.
Wrap8(n) == ((n + 128) % 256) - 128

Saturate8(n) == Max(-128, Min(127, n))

ISqrt(n) == CHOOSE r \in 0..182 : r * r <= n /\ n < (r + 1) * (r + 1)

----------------------------------------------------------------------------
(* Size estimator: project.py lines 52-64 *)

\* Sine and cosine of the rectangle angle, for the axis-aligned angles that
\* minAreaRect reports for an upright contour.
Sin(angle) == CASE angle = 0 -> 0 [] angle = 90 -> 1 [] angle = -90 -> -1

Cos(angle) == CASE angle = 0 -> 1 [] angle = 90 -> 0 [] angle = -90 -> 0

\* cv2.boxPoints(rect): the four corners, in units of 1/(2*Sub) pixel.
\*   pt0 = c + (-a*h - b*w,  b*h - a*w)      a = sin/2, b = cos/2
\*   pt1 = c + ( a*h - b*w, -b*h - a*w)
\*   pt2 = 2c - pt0,  pt3 = 2c - pt1
boxPoints(rect) ==
    LET s == Sin(rect.angle)
        c == Cos(rect.angle)
        p0 == << 2 * rect.cx - s * rect.h - c * rect.w,
                 2 * rect.cy + c * rect.h - s * rect.w >>
        p1 == << 2 * rect.cx + s * rect.h - c * rect.w,
                 2 * rect.cy - c * rect.h - s * rect.w >>
        p2 == << 4 * rect.cx - p0[1], 4 * rect.cy - p0[2] >>
        p3 == << 4 * rect.cx - p1[1], 4 * rect.cy - p1[2] >>
    IN  << p0, p1, p2, p3 >>

\* Cast of one float coordinate to int8: truncation, then, when the value
\* does not fit, the outcome of the build (wrap or saturate).
CastInt8(v, mode) ==
    LET t == TruncDiv(v, 2 * Sub)
    IN  IF t >= -128 /\ t <= 127 THEN t
        ELSE IF mode = "wrap" THEN Wrap8(t) ELSE Saturate8(t)

\* np.int8(box)
int8(box, mode) ==
    [i \in 1..4 |-> << CastInt8(box[i][1], mode), CastInt8(box[i][2], mode) >>]

\* box[i] - box[j] on int8 arrays: the subtraction wraps to 8 bits.
SubInt8(p, q) == << Wrap8(p[1] - q[1]), Wrap8(p[2] - q[2]) >>

NormSigned(v) == v[1] + v[2]

\* np.linalg.norm of an integer 2-vector (converted to float first).  The
\* rectangles of the model are axis-aligned, so one component is zero and
\* the root is exact.
Norm(v) == ISqrt(v[1] * v[1] + v[2] * v[2])

calculate_real_size(pixel_size, dist_cm, focal_px) ==
    (pixel_size * dist_cm * CmUnit) \div focal_px

get_corrected_size_of(rect, dist_cm, focal_px, mode) ==
    LET box == int8(boxPoints(rect), mode)
        width_px == Norm(SubInt8(box[1], box[2]))
        height_px == Norm(SubInt8(box[2], box[3]))
    IN  << calculate_real_size(width_px, dist_cm, focal_px),
           calculate_real_size(height_px, dist_cm, focal_px) >>

get_corrected_size(rect, dist_cm, focal_px) ==
    get_corrected_size_of(rect, dist_cm, focal_px, cast_mode)

----------------------------------------------------------------------------
(* Reference matcher: project.py lines 34-49 *)

Kniga == [name |-> "Kniga", width_cm |-> 15 * CmUnit, height_cm |-> 21 * CmUnit]

Telefon == [name |-> "Telefon", width_cm |-> 7 * CmUnit, height_cm |-> 15 * CmUnit]

\* What initialize_database leaves in an empty table.
SeedCatalog == << Kniga, Telefon >>

WithinToleranceStrict(obj, width_cm, height_cm, tolerance) ==
    /\ Abs(obj.width_cm - width_cm) < tolerance
    /\ Abs(obj.height_cm - height_cm) < tolerance

\* Lines 46-47.
WithinTolerance(obj, width_cm, height_cm, tolerance) ==
    /\ Abs(obj.width_cm - width_cm) <= tolerance
    /\ Abs(obj.height_cm - height_cm) <= tolerance

RECURSIVE ScanObjects(_, _, _, _, _)
\* The for loop of check_object_match from index i on.
ScanObjects(objects, i, width_cm, height_cm, tolerance) ==
    IF i > Len(objects) THEN "incorrect"
    ELSE IF WithinTolerance(objects[i], width_cm, height_cm, tolerance)
         THEN "correct"
         ELSE ScanObjects(objects, i + 1, width_cm, height_cm, tolerance)

check_object_match(width_cm, height_cm, tolerance) ==
    ScanObjects(catalogue, 1, width_cm, height_cm, tolerance)

----------------------------------------------------------------------------
(* Inputs of the main loop *)

\* Pointer positions delivered to the mouse callback.
MouseX == {5, 10, 200}

MouseY == {5, 200}

\* Python slice a:b of an axis of length n: number of selected indices.
SliceIndex(i, n) == IF i < 0 THEN Max(0, i + n) ELSE Min(i, n)

SliceLen(a, b, n) == Max(0, SliceIndex(b, n) - SliceIndex(a, n))

\* Rotated rectangles cv2.minAreaRect may report for the largest contour,
\* in coordinates of the region of interest (centre and size in 1/Sub px).
Rect(cx, cy, w, h, angle) == [cx |-> cx, cy |-> cy, w |-> w, h |-> h, angle |-> angle]

MainRects ==
    { Rect(100 * Sub, 100 * Sub, 120 * Sub, 56 * Sub, 0),
      Rect(20 * Sub + 1, 20 * Sub, 12 * Sub, 10 * Sub, 90),
      Rect(97 * Sub, 50 * Sub, 190 * Sub, 30 * Sub, -90) }

\* The rectangle encloses a contour of area > 100 lying inside a region of
\* cols x rows pixels.
FitsRegion(rect, cols, rows) ==
    /\ rect.w * rect.h > MinContourArea * Sub * Sub
    /\ \A i \in 1..4 :
         /\ boxPoints(rect)[i][1] >= 0 /\ boxPoints(rect)[i][1] <= 2 * Sub * cols
         /\ boxPoints(rect)[i][2] >= 0 /\ boxPoints(rect)[i][2] <= 2 * Sub * rows

RegionRows == SliceLen(roi_box[2], roi_box[2] + roi_box[4], FrameHeight)

RegionCols == SliceLen(roi_box[1], roi_box[1] + roi_box[3], FrameWidth)

\* The globals and the distance as an operation finds them.
Snapshot == [roi_selected |-> roi_selected, roi_box |-> roi_box,
             tracking |-> tracking, distance_cm |-> distance_cm]

----------------------------------------------------------------------------
(* Initial state: module globals (lines 68-70) and the locals of main up to
   the loop (lines 95-109) *)

InitGlobals ==
    /\ roi_selected = FALSE
    /\ roi_box = None
    /\ tracking = FALSE
    /\ distance_cm = InitDistance
    /\ est = None
    /\ match_result = "none"
    /\ last_op = "init"
    /\ raised = FALSE
    /\ pre = [roi_selected |-> FALSE, roi_box |-> None, tracking |-> FALSE,
              distance_cm |-> InitDistance]

Init ==
    /\ InitGlobals
    /\ catalogue = SeedCatalog
    /\ cast_mode \in {"wrap", "saturate"}
    /\ pc = "frame"
    /\ args = None
    /\ ret = None

----------------------------------------------------------------------------
(* select_roi: project.py lines 73-89.  It runs while main is in waitKey.
   An exception in the callback is printed by the binding and the loop goes
   on; the assignments made before it stay. *)

Press(x, y) ==
    /\ pc = "wait"
    /\ roi_box' = << x, y, 0, 0 >>
    /\ roi_selected' = TRUE
    /\ raised' = FALSE
    /\ last_op' = "press"
    /\ pre' = Snapshot
    /\ UNCHANGED << tracking, distance_cm, catalogue, cast_mode, pc, est,
                    match_result, args, ret >>

Move(x, y) ==
    /\ pc = "wait"
    /\ IF roi_selected
       THEN IF roi_box = None
            THEN raised' = TRUE /\ roi_box' = roi_box
            ELSE /\ roi_box' = << roi_box[1], roi_box[2], x - roi_box[1], y - roi_box[2] >>
                 /\ raised' = FALSE
       ELSE raised' = FALSE /\ roi_box' = roi_box
    /\ last_op' = "move"
    /\ pre' = Snapshot
    /\ UNCHANGED << roi_selected, tracking, distance_cm, catalogue, cast_mode, pc,
                    est, match_result, args, ret >>

RoiAlways(box) == TRUE

\* Line 86: the minimum size of the region.
RoiLargeEnough(box) == box[3] > MinRoi /\ box[4] > MinRoi

Release(x, y) ==
    /\ pc = "wait"
    /\ roi_selected' = FALSE
    /\ IF roi_box = None
       THEN raised' = TRUE /\ UNCHANGED << roi_box, tracking >>
       ELSE /\ raised' = FALSE
            /\ IF RoiLargeEnough(roi_box)
               THEN tracking' = TRUE /\ roi_box' = roi_box
               ELSE roi_box' = None /\ tracking' = tracking
    /\ last_op' = "release"
    /\ pre' = Snapshot
    /\ UNCHANGED << distance_cm, catalogue, cast_mode, pc, est, match_result, args, ret >>

----------------------------------------------------------------------------
(* One iteration of the loop of main up to waitKey: lines 112-210 *)

\* cap.read() fails: break.
FrameReadFail ==
    /\ pc = "frame"
    /\ pc' = "done"
    /\ last_op' = "read_fail"
    /\ raised' = FALSE
    /\ pre' = Snapshot
    /\ UNCHANGED << roi_selected, roi_box, tracking, distance_cm, catalogue,
                    cast_mode, est, match_result, args, ret >>

\* No region is tracked: the frame is only displayed.
FrameIdle ==
    /\ pc = "frame"
    /\ ~(tracking /\ roi_box # None)
    /\ pc' = "wait"
    /\ est' = None
    /\ match_result' = "none"
    /\ last_op' = "frame"
    /\ raised' = FALSE
    /\ pre' = Snapshot
    /\ UNCHANGED << roi_selected, roi_box, tracking, distance_cm, catalogue,
                    cast_mode, args, ret >>

\* The region is empty: cv2.cvtColor raises and main ends with the error.
FrameEmptyRegion ==
    /\ pc = "frame"
    /\ tracking /\ roi_box # None
    /\ RegionRows = 0 \/ RegionCols = 0
    /\ pc' = "crashed"
    /\ est' = None
    /\ match_result' = "none"
    /\ last_op' = "detect"
    /\ raised' = TRUE
    /\ pre' = Snapshot
    /\ UNCHANGED << roi_selected, roi_box, tracking, distance_cm, catalogue,
                    cast_mode, args, ret >>

\* Detection runs and finds no contour of area > 100.
FrameNoContour ==
    /\ pc = "frame"
    /\ tracking /\ roi_box # None
    /\ RegionRows > 0 /\ RegionCols > 0
    /\ pc' = "wait"
    /\ est' = None
    /\ match_result' = "none"
    /\ last_op' = "detect"
    /\ raised' = FALSE
    /\ pre' = Snapshot
    /\ UNCHANGED << roi_selected, roi_box, tracking, distance_cm, catalogue,
                    cast_mode, args, ret >>

\* Detection runs and the largest contour has the rotated rectangle rect.
FrameEstimate(rect) ==
    /\ pc = "frame"
    /\ tracking /\ roi_box # None
    /\ RegionRows > 0 /\ RegionCols > 0
    /\ FitsRegion(rect, RegionCols, RegionRows)
    /\ pc' = "wait"
    /\ est' = get_corrected_size(rect, distance_cm, FocalPx)
    /\ match_result' = check_object_match(est'[1], est'[2], DefaultTolerance)
    /\ last_op' = "detect"
    /\ raised' = FALSE
    /\ pre' = Snapshot
    /\ UNCHANGED << roi_selected, roi_box, tracking, distance_cm, catalogue,
                    cast_mode, args, ret >>

----------------------------------------------------------------------------
(* The key returned by waitKey: lines 212-223 *)

\* width_cm, height_cm and match_result are read only in the iteration that
\* assigns them: est and match_result stand for the values of the current
\* iteration and are forgotten when it ends.
EndIteration(op) ==
    /\ est' = None
    /\ match_result' = "none"
    /\ last_op' = op
    /\ raised' = FALSE
    /\ pre' = Snapshot
    /\ UNCHANGED << catalogue, cast_mode, args, ret >>

\* No key, or a key without a command.
KeyNone ==
    /\ pc = "wait"
    /\ pc' = "frame"
    /\ EndIteration("key_none")
    /\ UNCHANGED << roi_selected, roi_box, tracking, distance_cm >>

KeyQuit ==
    /\ pc = "wait"
    /\ pc' = "done"
    /\ EndIteration("key_q")
    /\ UNCHANGED << roi_selected, roi_box, tracking, distance_cm >>

KeyPlus ==
    /\ pc = "wait"
    /\ distance_cm + DistanceStep <= MaxDistance
    /\ distance_cm' = distance_cm + DistanceStep
    /\ pc' = "frame"
    /\ EndIteration("key_plus")
    /\ UNCHANGED << roi_selected, roi_box, tracking >>

DecreaseNoFloor(d) == d - DistanceStep

\* Line 218.
Decrease(d) == Max(MinDistance, d - DistanceStep)

KeyMinus ==
    /\ pc = "wait"
    /\ distance_cm' = Decrease(distance_cm)
    /\ pc' = "frame"
    /\ EndIteration("key_minus")
    /\ UNCHANGED << roi_selected, roi_box, tracking >>

KeyReset ==
    /\ pc = "wait"
    /\ tracking' = FALSE
    /\ roi_box' = None
    /\ pc' = "frame"
    /\ EndIteration("key_r")
    /\ UNCHANGED << roi_selected, distance_cm >>

Next ==
    \/ \E x \in MouseX, y \in MouseY : Press(x, y)
    \/ \E x \in MouseX, y \in MouseY : Move(x, y)
    \/ \E x \in MouseX, y \in MouseY : Release(x, y)
    \/ FrameReadFail
    \/ FrameIdle
    \/ FrameEmptyRegion
    \/ FrameNoContour
    \/ \E rect \in MainRects : FrameEstimate(rect)
    \/ KeyNone
    \/ KeyQuit
    \/ KeyPlus
    \/ KeyMinus
    \/ KeyReset

Spec == Init /\ [][Next]_vars

----------------------------------------------------------------------------
(* get_corrected_size on its own: one call on a rectangle, then one call on
   the rectangle with its pixel width and height exchanged *)

SizePx == {2 * Sub + Sub \div 2, 4 * Sub, 100 * Sub, 200 * Sub}

SizeInputs ==
    { [rect |-> Rect(cx, cy, w, h, angle), distance_cm |-> d, focal_px |-> FocalPx] :
        cx \in {10 * Sub + 1, 100 * Sub, 320 * Sub},
        cy \in {10 * Sub, 240 * Sub},
        w \in SizePx, h \in SizePx,
        angle \in {0, 90, -90},
        d \in {MinDistance, InitDistance} }

Swapped(rect) == Rect(rect.cx, rect.cy, rect.h, rect.w, rect.angle)

InitSize ==
    /\ InitGlobals
    /\ catalogue = SeedCatalog
    /\ cast_mode \in {"wrap", "saturate"}
    /\ pc = "call_size"
    /\ args \in SizeInputs
    /\ ret = None

CallSize ==
    /\ pc = "call_size"
    /\ ret' = << get_corrected_size(args.rect, args.distance_cm, args.focal_px) >>
    /\ pc' = "size_returned"
    /\ UNCHANGED << roi_selected, roi_box, tracking, distance_cm, catalogue, cast_mode,
                    est, match_result, last_op, raised, pre, args >>

CallSizeSwapped ==
    /\ pc = "size_returned"
    /\ ret' = Append(ret, get_corrected_size(Swapped(args.rect), args.distance_cm,
                                             args.focal_px))
    /\ pc' = "swap_returned"
    /\ UNCHANGED << roi_selected, roi_box, tracking, distance_cm, catalogue, cast_mode,
                    est, match_result, last_op, raised, pre, args >>

NextSize == CallSize \/ CallSizeSwapped

SpecSize == InitSize /\ [][NextSize]_vars

----------------------------------------------------------------------------
(* check_object_match on its own *)

Korobka == [name |-> "Korobka", width_cm |-> 16 * CmUnit, height_cm |-> 22 * CmUnit]

EntryPool == {Kniga, Telefon, Korobka}

\* Tables the query can return: rows with distinct names (the primary key),
\* in any order, never empty after initialize_database.
Catalogs ==
    UNION { { c \in [1..n -> EntryPool] : \A i, j \in 1..n : c[i] = c[j] => i = j } :
            n \in 1..MaxCatalog }

Tenth == CmUnit \div 10

MatchInputs ==
    { [width_cm |-> w * Tenth, height_cm |-> h * Tenth, tolerance |-> t] :
        w \in {60, 70, 80, 81, 150, 159, 160, 161},
        h \in {140, 150, 160, 210, 219, 220, 221, 250},
        t \in {CmUnit \div 2, CmUnit, 2 * CmUnit} }

InitMatch ==
    /\ InitGlobals
    /\ catalogue \in Catalogs
    /\ cast_mode = "wrap"
    /\ pc = "call_match"
    /\ args \in MatchInputs
    /\ ret = None

CallMatch ==
    /\ pc = "call_match"
    /\ ret' = << check_object_match(args.width_cm, args.height_cm, args.tolerance) >>
    /\ pc' = "match_returned"
    /\ UNCHANGED << roi_selected, roi_box, tracking, distance_cm, catalogue, cast_mode,
                    est, match_result, last_op, raised, pre, args >>

NextMatch == CallMatch

SpecMatch == InitMatch /\ [][NextMatch]_vars

----------------------------------------------------------------------------
(* Properties *)

\* C1: from distance_cm = 50, after any sequence of '+' and '-' commands the
\* distance is never below 5.
C1_DistanceFloor == distance_cm >= 5

\* The '-' command was issued at distance 5 and left it at 5.
C1_Witness ==
    last_op = "key_minus" /\ pre.distance_cm = 5 /\ distance_cm = 5

Entries == { catalogue[i] : i \in 1..Len(catalogue) }

Near(a, b, tolerance) == a - b <= tolerance /\ b - a <= tolerance

SeedCase(w10, h10) ==
    /\ Entries = {Kniga, Telefon}
    /\ args.tolerance = CmUnit
    /\ args.width_cm = w10 * Tenth
    /\ args.height_cm = h10 * Tenth

\* C2: check_object_match returns "correct" exactly when some catalogue entry
\* is within the tolerance (inclusive) in both width and height, "incorrect"
\* otherwise, whatever the order of the entries; with the seeded catalogue
\* and tolerance 1.0 it is correct for (15.0,21.0) and (15.9,21.9) and
\* incorrect for (15.0,25.0) and (16.1,21.0).
C2_MatchIffSomeEntryNear ==
    pc = "match_returned" =>
        /\ ret[1] \in {"correct", "incorrect"}
        /\ ret[1] = "correct" <=>
             \E e \in Entries :
                /\ Near(e.width_cm, args.width_cm, args.tolerance)
                /\ Near(e.height_cm, args.height_cm, args.tolerance)
        /\ SeedCase(150, 210) => ret[1] = "correct"
        /\ SeedCase(159, 219) => ret[1] = "correct"
        /\ SeedCase(150, 250) => ret[1] = "incorrect"
        /\ SeedCase(161, 210) => ret[1] = "incorrect"

\* The seeded catalogue with the book in second place, the estimate
\* (15.9, 21.9) and tolerance 1.0: the match is found.
C2_Witness ==
    /\ pc = "match_returned"
    /\ catalogue = << Telefon, Kniga >>
    /\ SeedCase(159, 219)
    /\ ret = << "correct" >>

\* C3: for a rectangle of pixel size (200,100) anywhere in the frame, with
\* distance_cm = 50 and focal_px = 480, get_corrected_size returns
\* width_cm = 200*50/480 and height_cm = 100*50/480.
C3_LargerIsWidth ==
    ( /\ pc = "size_returned"
      /\ args.rect.w = 200 * Sub /\ args.rect.h = 100 * Sub
      /\ args.distance_cm = 50 /\ args.focal_px = 480 ) =>
        /\ ret[1][1] * 480 = 200 * 50 * CmUnit
        /\ ret[1][2] * 480 = 100 * 50 * CmUnit

\* C4: if get_corrected_size returns (a,b) for a rectangle, it returns (b,a)
\* for the rectangle with its pixel width and height exchanged.
C4_SwapSymmetry ==
    pc = "swap_returned" => ret[2] = << ret[1][2], ret[1][1] >>

\* C5: in every iteration that computes an estimate, width_cm and height_cm
\* are both >= 0.
C5_NonNegative == est # None => est[1] >= 0 /\ est[2] >= 0

\* An estimate computed after the distance was lowered to its floor.
C5_Witness ==
    /\ last_op = "detect" /\ est # None
    /\ distance_cm = 5
    /\ est[1] > 0 /\ est[2] > 0

\* C6: roi_selected becomes True only on a left-button press; tracking goes
\* from False to True only on a left-button release that follows a press and
\* leaves a region with both drag deltas > 10.
C6_FlagTransitions ==
    [][ /\ (~roi_selected /\ roi_selected') => last_op' = "press"
        /\ (~tracking /\ tracking') =>
             /\ last_op' = "release"
             /\ roi_selected
             /\ roi_box' # None
             /\ roi_box'[3] > 10 /\ roi_box'[4] > 10 ]_vars

\* A release that ended a selection and started tracking.
C6_Witness ==
    /\ last_op = "release"
    /\ pre.roi_selected /\ ~pre.tracking
    /\ tracking /\ ~roi_selected
    /\ roi_box # None /\ roi_box[3] > 10 /\ roi_box[4] > 10

\* C7: after a release whose drag delta is not > 10 in both axes, the state
\* is Idle: roi_selected False, tracking False, roi_box None.
C7_SmallReleaseIdle ==
    ( /\ last_op = "release"
      /\ pre.roi_box # None
      /\ ~(pre.roi_box[3] > 10 /\ pre.roi_box[4] > 10) ) =>
        /\ roi_selected = FALSE
        /\ tracking = FALSE
        /\ roi_box = None

\* C8: the 'r' command leaves the ROI machine Idle: roi_selected False,
\* tracking False, roi_box None.
C8_ResetIdle ==
    last_op = "key_r" =>
        /\ roi_selected = FALSE
        /\ tracking = FALSE
        /\ roi_box = None

\* C9: in every iteration in which detection runs, the region has both
\* dimensions above the minimum size.
C9_DetectRegionLarge ==
    last_op = "detect" => roi_box[3] > 10 /\ roi_box[4] > 10

\* C10: select_roi never indexes roi_box while it is None.
C10_NeverIndexNone ==
    last_op \in {"move", "release"} => ~raised

====
